---- MODULE Spec2Model ----
(***************************************************************************)
(* Verification model of the ergo distribution/condition fitting core:     *)
(*   ergo/distributions/logistic.py   Logistic                             *)
(*   ergo/distributions/mixture.py    Mixture                              *)
(*   ergo/conditions/crossentropy.py  CrossEntropyCondition,               *)
(*                                    PartialCrossEntropyCondition         *)
(*   ergo/static.py                   condition-loss kernels,              *)
(*                                    mixture log-likelihood kernel        *)
(*   ergo/distributions/logistic_mixture.py   its second copy              *)
(*                                                                         *)
(* Numbers.  The program computes in floating point; the model computes in *)
(* exact fixed point.  A real r (a location, a spread, a point of the      *)
(* support) is the integer r * ONE.  The spread floor 0.0000001 of         *)
(* logistic.py is Eps units, so ONE = Eps * 10^7.  Scale bounds are whole  *)
(* numbers.  Probabilities of the logistic cdf are in 1/1000 (PQ), mixing  *)
(* weights in 1/4 (PrQ), log-densities in 1/1000 nat (LQ).  The standard   *)
(* logistic cdf, its inverse, the standard log-density, log and exp are    *)
(* tables of their rounded values; the cdf is evaluated at floor((x-loc)/s)*)
(* and saturates outside [-YSat, YSat] as the floating-point cdf does.     *)
(***************************************************************************)
EXTENDS Integers, Sequences, FiniteSets, TLC

VARIABLES
    lg,       \* SpecLogistic: the Logistic object the program holds (or NoLogistic)
    lgOp,     \* SpecLogistic: the last Logistic operation, its receiver and outcome
    margs,    \* SpecMixture: the constructor arguments not yet used (or NoMixture)
    mix,      \* SpecMixture: the Mixture object the program holds (or NoMixture)
    res,      \* SpecMixture: the last Mixture operation and its outcome
    conds,    \* SpecLoss: the list of condition objects built so far
    dparams,  \* SpecLoss: the flat distribution parameters (loc, s)
    out,      \* SpecLoss: the last condition/loss operation and its outcome
    kin,      \* SpecKernel: the flat mixture parameters and the batch of data
    kout      \* SpecKernel: the last kernel call and the value it returned

vars == <<lg, lgOp, margs, mix, res, conds, dparams, out, kin, kout>>

---------------------------------------------------------------------------
(* Fixed point and small helpers *)

\* 0.0000001, the spread floor of Logistic.__init__, in fixed-point units
Eps == 16

\* 1.0 in fixed-point units
ONE == Eps * 10000000

Max(a, b) == IF a >= b THEN a ELSE b

Min(a, b) == IF a <= b THEN a ELSE b

Abs(a) == IF a >= 0 THEN a ELSE 0 - a

---------------------------------------------------------------------------
(* Scale: the external collaborator, (low, high) with width = high - low *)

Scale(low, high) == [low |-> low, high |-> high]

\* the argument scale=None
NoScale == [low |-> 0, high |-> 0]

ScaleWidth(scale) == scale.high - scale.low

\* normalize_point(x) = (x - low) / width
NormalizePoint(scale, x) == (x - scale.low * ONE) \div ScaleWidth(scale)

\* denormalize_point(x') = low + x' * width
DenormalizePoint(scale, xn) == scale.low * ONE + xn * ScaleWidth(scale)

---------------------------------------------------------------------------
(* Logistic *)

Returned(obj) == [raised |-> "none", obj |-> obj]

NoLogistic ==
    [loc |-> 0, s |-> 0, scale |-> NoScale,
     true_set |-> FALSE, true_loc |-> 0, true_s |-> 0]

Raised(exc) == [raised |-> exc, obj |-> NoLogistic]

\* a mutant of LogisticInit: the missing-scale test is dropped and the
\* normalized branch taken instead
LogisticInit_NoScaleCheck(loc, s, scale, normalized) ==
    LET s1 == Max(s, Eps) IN
    IF scale # NoScale
    THEN Returned([loc |-> loc, s |-> s1, scale |-> scale, true_set |-> TRUE,
                   true_loc |-> DenormalizePoint(scale, loc),
                   true_s |-> s1 * ScaleWidth(scale)])
    ELSE Returned([loc |-> loc, s |-> s1, scale |-> Scale(0, 1),
                   true_set |-> FALSE, true_loc |-> 0, true_s |-> 0])

\* Logistic.__init__(loc, s, scale=None, metadata=None, normalized=False).
\* true_set is FALSE when the constructor leaves true_s / true_loc unassigned.
LogisticInit(loc, s, scale, normalized) ==
    IF normalized
    THEN LET s1 == Max(s, Eps) IN
         IF scale # NoScale
         THEN Returned([loc |-> loc, s |-> s1, scale |-> scale,
                        true_set |-> TRUE,
                        true_loc |-> DenormalizePoint(scale, loc),
                        true_s |-> s1 * ScaleWidth(scale)])
         ELSE Returned([loc |-> loc, s |-> s1, scale |-> Scale(0, 1),
                        true_set |-> FALSE, true_loc |-> 0, true_s |-> 0])
    ELSE IF scale = NoScale
    THEN Raised("ValueError")
    ELSE Returned([loc |-> NormalizePoint(scale, loc),
                   s |-> Max(s, Eps) \div ScaleWidth(scale),
                   scale |-> scale,
                   true_set |-> TRUE, true_loc |-> loc, true_s |-> s])

\* Logistic.normalize(): self.__class__(self.loc, self.s, Scale(0, 1), self.metadata)
LogisticNormalize(c) == LogisticInit(c.loc, c.s, Scale(0, 1), FALSE).obj

\* Logistic.denormalize(scale)
LogisticDenormalize(c, scale) ==
    LET denormalized_loc == DenormalizePoint(scale, c.loc)
        denormalized_s == c.s * ScaleWidth(scale)
    IN LogisticInit(denormalized_loc, denormalized_s, scale, FALSE).obj

---------------------------------------------------------------------------
(* SpecLogistic: construct a Logistic, then normalize / denormalize it *)

\* the scales the model draws from: widths 1, 2 and 4
Scales == {Scale(0, 1), Scale(0, 2), Scale(-2, 2)}

\* loc arguments: 0, 1/4, 1/2, 1, 2
LocArgs == {0, ONE \div 4, ONE \div 2, ONE, 2 * ONE}

\* spread arguments: negative, zero, the floor, 0.01, 0.25
SArgs == {0 - Eps, 0, Eps, ONE \div 100, ONE \div 4}

NoLgOp ==
    [op |-> "none", raised |-> "none", recv |-> NoLogistic,
     s_arg |-> 0, scale_arg |-> NoScale, normalized |-> FALSE]

InitIdleLogistic == lg = NoLogistic /\ lgOp = NoLgOp

ConstructLogistic ==
    \E loc \in LocArgs, s \in SArgs, scale \in Scales \cup {NoScale},
       normalized \in BOOLEAN :
        LET r == LogisticInit(loc, s, scale, normalized) IN
        /\ lg' = IF r.raised = "none" THEN r.obj ELSE lg
        /\ lgOp' = [op |-> "construct", raised |-> r.raised, recv |-> NoLogistic,
                    s_arg |-> s, scale_arg |-> scale, normalized |-> normalized]
        /\ UNCHANGED <<kin, kout, margs, mix, res, conds, dparams, out>>

NormalizeLogistic ==
    /\ lg # NoLogistic
    /\ lg' = LogisticNormalize(lg)
    /\ lgOp' = [op |-> "normalize", raised |-> "none", recv |-> lg,
                s_arg |-> 0, scale_arg |-> Scale(0, 1), normalized |-> FALSE]
    /\ UNCHANGED <<kin, kout, margs, mix, res, conds, dparams, out>>

DenormalizeLogistic ==
    \E scale \in Scales :
        /\ lg # NoLogistic
        /\ lg' = LogisticDenormalize(lg, scale)
        /\ lgOp' = [op |-> "denormalize", raised |-> "none", recv |-> lg,
                    s_arg |-> 0, scale_arg |-> scale, normalized |-> FALSE]
        /\ UNCHANGED <<kin, kout, margs, mix, res, conds, dparams, out>>

---------------------------------------------------------------------------
(* Logistic cdf and ppf *)

\* scipy.stats.logistic.cdf at y = -8 .. 8, in 1/1000
StdCdfTable ==
    <<0, 1, 2, 7, 18, 47, 119, 269, 500, 731, 881, 953, 982, 993, 998, 999, 1000>>

\* beyond +-YSat the cdf is saturated at 0 or 1
YSat == (Len(StdCdfTable) - 1) \div 2

\* probability 1 in the units of the cdf table
PQ == StdCdfTable[Len(StdCdfTable)]

StdCdf(y) == StdCdfTable[Max(0 - YSat, Min(YSat, y)) + YSat + 1]

\* scipy.stats.logistic.ppf of the standard logistic: the inverse of the table
Logit(q) == CHOOSE k \in (0 - YSat)..YSat : StdCdf(k) = q

\* Logistic.cdf(x)
LogisticCdf(c, x) ==
    LET y == (NormalizePoint(c.scale, x) - c.loc) \div c.s
    IN StdCdf(y)

\* Logistic.ppf(q): rv() is logistic(loc=self.loc, scale=self.s)
LogisticPpf(c, q) == DenormalizePoint(c.scale, c.loc + c.s * Logit(q))

---------------------------------------------------------------------------
(* Mixture *)

\* mixing weights are in quarters: probability 1 is PrQ
PrQ == 4

NoMixture == [components |-> <<>>, probs |-> <<>>, scale |-> NoScale]

MixReturned(obj) == [raised |-> "none", obj |-> obj]

MixRaised(exc) == [raised |-> exc, obj |-> NoMixture]

\* a mutant of MixtureInit: the component scales are not compared
MixtureInit_NoCheck(components, probs, scale) ==
    MixReturned([components |-> components, probs |-> probs, scale |-> scale])

\* the dataclass constructor followed by Mixture.__post_init__
MixtureInit(components, probs, scale) ==
    IF \E i \in 1..Len(components) :
           components[i].scale # NoScale /\ components[i].scale # scale
    THEN MixRaised("Exception")
    ELSE MixReturned([components |-> components, probs |-> probs, scale |-> scale])

RECURSIVE SumCdf(_, _, _)
SumCdf(m, x, i) ==
    IF i > Min(Len(m.components), Len(m.probs)) THEN 0
    ELSE LogisticCdf(m.components[i], x) * m.probs[i] + SumCdf(m, x, i + 1)

\* Mixture.cdf(x), in units of 1/(PQ * PrQ)
MixtureCdf(m, x) == SumCdf(m, x, 1)

\* lambda x: self.cdf(x) - q
PpfObjective(m, q, x) == MixtureCdf(m, x) - q * PrQ

\* maxiter=1000
MaxIter == 1000

\* the root finder's absolute tolerance: one unit of the fixed point
XTol == 1

PpfReturned(x, tier) == [raised |-> "none", value |-> x, tier |-> tier]

PpfRaised(exc, tier) == [raised |-> exc, value |-> 0, tier |-> tier]

\* the loop of scipy.optimize.bisect on the bracket [xa, xb]; fa is f(a)
RECURSIVE BisectLoop(_, _, _, _, _, _, _)
BisectLoop(m, q, xa, xb, fa, iter, tier) ==
    LET dm == (xb - xa) \div 2
        xm == xa + dm
        fm == PpfObjective(m, q, xm)
    IN IF fm = 0 \/ dm < XTol THEN PpfReturned(xm, tier)
       ELSE IF iter <= 1 THEN PpfRaised("RuntimeError", tier)
       ELSE IF fm * fa >= 0
            THEN BisectLoop(m, q, xm, xb, fa, iter - 1, tier)
            ELSE BisectLoop(m, q, xa, xm, fa, iter - 1, tier)

\* scipy.optimize.bisect(lambda x: self.cdf(x) - q, a, b, maxiter=1000)
Bisect(m, q, a, b, tier) ==
    LET fa == PpfObjective(m, q, a)
        fb == PpfObjective(m, q, b)
    IN IF fa * fb > 0 THEN PpfRaised("ValueError", tier)
       ELSE IF fa = 0 THEN PpfReturned(a, tier)
       ELSE IF fb = 0 THEN PpfReturned(b, tier)
       ELSE BisectLoop(m, q, a, b, fa, MaxIter, tier)

ComponentPpfs(m, q) == [i \in 1..Len(m.components) |-> LogisticPpf(m.components[i], q)]

\* np.min(ppfs)
SeqMin(s) == CHOOSE v \in {s[i] : i \in 1..Len(s)} : \A w \in {s[i] : i \in 1..Len(s)} : v <= w

\* np.max(ppfs)
SeqMax(s) == CHOOSE v \in {s[i] : i \in 1..Len(s)} : \A w \in {s[i] : i \in 1..Len(s)} : v >= w

\* a mutant of BracketLow: the bracket starts from the largest component
\* quantile
BracketLow_FromMax(m, q) ==
    LET cmax == SeqMax(ComponentPpfs(m, q)) IN cmax - Abs(cmax) \div 100

\* the first bracket: cmin - abs(cmin / 100), cmax + abs(cmax / 100)
BracketLow(m, q) ==
    LET cmin == SeqMin(ComponentPpfs(m, q)) IN cmin - Abs(cmin) \div 100

BracketHigh(m, q) ==
    LET cmax == SeqMax(ComponentPpfs(m, q)) IN cmax + Abs(cmax) \div 100

\* a mutant of MixturePpf: the single-component shortcut is missing
MixturePpf_NoShortcut(m, q) ==
    LET first == Bisect(m, q, BracketLow(m, q), BracketHigh(m, q), "bracket")
    IN IF first.raised # "ValueError" THEN first
       ELSE Bisect(m, q, m.scale.low * ONE, m.scale.high * ONE, "scale")

\* a mutant of MixturePpf: the middle of the component quantiles is returned
\* without any root finding
MixturePpf_Midpoint(m, q) ==
    IF Len(m.components) = 1
    THEN PpfReturned(LogisticPpf(m.components[1], q), "component")
    ELSE PpfReturned(BracketLow(m, q) + (BracketHigh(m, q) - BracketLow(m, q)) \div 2,
                     "bracket")

\* Mixture.ppf(q).  tier names the return statement that produced the
\* outcome: "component" (line 51), "bracket" (line 56), "scale" (line 63).
MixturePpf(m, q) ==
    IF Len(m.components) = 1
    THEN PpfReturned(LogisticPpf(m.components[1], q), "component")
    ELSE LET first == Bisect(m, q, BracketLow(m, q), BracketHigh(m, q), "bracket")
         IN IF first.raised # "ValueError" THEN first
            ELSE Bisect(m, q, m.scale.low * ONE, m.scale.high * ONE, "scale")

\* Mixture.normalize()
MixtureNormalize(m) ==
    LET normalized_components ==
            [i \in 1..Len(m.components) |-> LogisticNormalize(m.components[i])]
    IN MixtureInit(normalized_components, m.probs, Scale(0, 1))

\* Mixture.denormalize(scale)
MixtureDenormalize(m, scale) ==
    LET denormalized_components ==
            [i \in 1..Len(m.components) |-> LogisticDenormalize(m.components[i], scale)]
    IN MixtureInit(denormalized_components, m.probs, scale)

---------------------------------------------------------------------------
(* SpecMixture: construct a Mixture from drawn arguments, then normalize /
   denormalize the object held.  SpecPpf: construct a Mixture from drawn
   arguments, then ask the constructed object for one quantile or one cdf
   value (both are pure: they leave the object as it is). *)

\* the largest number of components of a mixture
MaxComps == 2

\* the scales mixtures and their components are constructed on
MixScales == {Scale(0, 1), Scale(-2, 2)}

\* true-scale component arguments: loc 0 or 1, spread 0 (floored) or 1/8
CompLocs == {0, ONE}

CompSArgs == {0, ONE \div 8}

MixComponents ==
    {LogisticInit(loc, s, sc, FALSE).obj :
        loc \in CompLocs, s \in CompSArgs, sc \in MixScales}

\* mixing weights 1/4, 1/2, 3/4: the caller is not made to normalise them
ProbVals == {1, 2, 3}

\* the quantiles asked for: the cdf table at y = -1 .. 1
Qs == {StdCdf(k) : k \in -1..1}

\* the points the cdf is asked at
CdfArgs == {0, ONE}

MixInputs ==
    UNION {[components : [1..n -> MixComponents], probs : [1..n -> ProbVals],
            scale : MixScales] : n \in 1..MaxComps}

NoRes ==
    [op |-> "none", raised |-> "none", value |-> 0, tier |-> "none", q |-> 0,
     recv |-> NoMixture, mismatch |-> FALSE]

InitIdleMixture == margs = NoMixture /\ mix = NoMixture /\ res = NoRes

ConstructMixture ==
    /\ margs # NoMixture
    /\ LET r == MixtureInit(margs.components, margs.probs, margs.scale) IN
        /\ mix' = r.obj
        /\ res' = [NoRes EXCEPT !.op = "construct", !.raised = r.raised,
                     !.mismatch = \E i \in 1..Len(margs.components) :
                                      margs.components[i].scale # margs.scale]
    /\ margs' = NoMixture
    /\ UNCHANGED <<kin, kout, lg, lgOp, conds, dparams, out>>

NormalizeMixture ==
    /\ mix # NoMixture
    /\ LET r == MixtureNormalize(mix) IN
        /\ mix' = IF r.raised = "none" THEN r.obj ELSE mix
        /\ res' = [NoRes EXCEPT !.op = "normalize", !.raised = r.raised, !.recv = mix]
    /\ UNCHANGED <<kin, kout, lg, lgOp, margs, conds, dparams, out>>

DenormalizeMixture ==
    \E scale \in Scales :
        /\ mix # NoMixture
        /\ LET r == MixtureDenormalize(mix, scale) IN
            /\ mix' = IF r.raised = "none" THEN r.obj ELSE mix
            /\ res' = [NoRes EXCEPT !.op = "denormalize", !.raised = r.raised,
                         !.recv = mix]
        /\ UNCHANGED <<kin, kout, lg, lgOp, margs, conds, dparams, out>>

Ppf ==
    \E q \in Qs :
        /\ mix # NoMixture
        /\ res.op = "construct"
        /\ LET r == MixturePpf(mix, q) IN
            res' = [NoRes EXCEPT !.op = "ppf", !.raised = r.raised,
                     !.value = r.value, !.tier = r.tier, !.q = q]
        /\ UNCHANGED <<kin, kout, lg, lgOp, margs, mix, conds, dparams, out>>

Cdf ==
    \E x \in CdfArgs :
        /\ mix # NoMixture
        /\ res.op = "construct"
        /\ res' = [NoRes EXCEPT !.op = "cdf", !.value = MixtureCdf(mix, x), !.q = x]
        /\ UNCHANGED <<kin, kout, lg, lgOp, margs, mix, conds, dparams, out>>

---------------------------------------------------------------------------
(* Log-density of a Logistic *)

\* jax.scipy.stats.logistic.logpdf at |y| = 0 .. 8, in 1/1000 nat
StdLogpdfTable == <<-1386, -1627, -2254, -3097, -4036, -5013, -6005, -7002, -8001>>

\* one nat in the units of the log-density
LQ == 1000

\* beyond the table  -|y| - 2 log(1 + exp(-|y|))  is -|y| to the last digit
StdLogpdf(y) ==
    IF Abs(y) < Len(StdLogpdfTable) THEN StdLogpdfTable[Abs(y) + 1] ELSE 0 - Abs(y) * LQ

\* np.log at 1e-7, 0.01, 0.25, 0.5 and 1, in 1/1000 nat
LogTable ==
    {<<Eps, -16118>>, <<ONE \div 100, -4605>>, <<ONE \div 4, -1386>>,
     <<ONE \div 2, -693>>, <<ONE, 0>>}

\* np.log(scale), rounded down to the table
NpLog(s) ==
    LET below == {e \in LogTable : e[1] <= s}
    IN (CHOOSE e \in below : \A f \in below : f[1] <= e[1])[2]

\* static.logistic_logpdf(x, loc, scale)
logistic_logpdf(x, loc, scale) ==
    LET y == (x - loc) \div scale
    IN StdLogpdf(y) - NpLog(scale)

\* Logistic.logpdf(x), x normalized
LogisticLogpdf(c, x) == logistic_logpdf(x, c.loc, c.s)

\* dist_class.from_params(dist_params[, traceable]): reshape and construct
\* from the flat normalized parameters (loc, s)
LogisticFromParams(params, traceable) ==
    LogisticInit(params[1], params[2], NoScale, TRUE).obj

---------------------------------------------------------------------------
(* Conditions.  A condition object is a record; a field its class does not
   have is empty.  Weights are in halves, the ps of a partial condition and
   the bin probabilities of a histogram in quarters. *)

\* histogram.HistogramDist(logps, traceable=True)
HistogramDist(logps, traceable) == [logps |-> logps]

NoHistogram == [logps |-> <<>>]

\* np.exp of a histogram log-probability, in quarters
NpExp(lp) ==
    CASE lp = 0 -> 4
      [] lp = -288 -> 3
      [] lp = -693 -> 2
      [] lp = -1386 -> 1

\* CrossEntropyCondition.__init__(p_dist, weight)
CrossEntropyCondition(p_dist, weight) ==
    [class |-> "CrossEntropyCondition", p_dist |-> p_dist,
     xs |-> <<>>, ps |-> <<>>, weight |-> weight]

\* PartialCrossEntropyCondition.__init__(xs, ps, weight)
PartialCrossEntropyCondition(xs, ps, weight) ==
    [class |-> "PartialCrossEntropyCondition", p_dist |-> NoHistogram,
     xs |-> xs, ps |-> ps, weight |-> weight]

RECURSIVE Dot(_, _, _)
\* np.dot(a, b)
Dot(a, b, i) == IF i > Len(a) THEN 0 ELSE a[i] * b[i] + Dot(a, b, i + 1)

\* HistogramDist.cross_entropy(q_dist): minus the sum over the bins of
\* p(bin) * log q(bin centre)
HistogramCrossEntropy(p_dist, q_dist) ==
    LET n == Len(p_dist.logps)
        ps == [i \in 1..n |-> NpExp(p_dist.logps[i])]
        q_logps == [i \in 1..n |-> LogisticLogpdf(q_dist, ((2 * i - 1) * ONE) \div (2 * n))]
    IN 0 - Dot(ps, q_logps, 1)

\* CrossEntropyCondition.loss(q_dist)
CrossEntropyLoss(c, q_dist) == c.weight * HistogramCrossEntropy(c.p_dist, q_dist)

\* the cross_entropy local of PartialCrossEntropyCondition.loss
PartialCrossEntropy(c, q_dist) ==
    LET q_logps == [i \in 1..Len(c.xs) |-> LogisticLogpdf(q_dist, c.xs[i])]
    IN 0 - Dot(c.ps, q_logps, 1)

\* a mutant of PartialCrossEntropyLoss: the minus sign of the cross-entropy is lost
PartialCrossEntropyLoss_NoMinus(c, q_dist) == 0 - c.weight * PartialCrossEntropy(c, q_dist)

\* PartialCrossEntropyCondition.loss(q_dist)
PartialCrossEntropyLoss(c, q_dist) == c.weight * PartialCrossEntropy(c, q_dist)

\* condition.loss(dist), dispatched on the condition's class
Loss(c, dist) ==
    IF c.class = "CrossEntropyCondition"
    THEN CrossEntropyLoss(c, dist)
    ELSE PartialCrossEntropyLoss(c, dist)

\* CrossEntropyCondition.destructure()
CrossEntropyDestructure(c) == <<"CrossEntropyCondition", <<c.p_dist.logps, c.weight>>>>

\* CrossEntropyCondition.structure(params)
CrossEntropyStructure(params) ==
    CrossEntropyCondition(HistogramDist(params[1], TRUE), params[2])

\* PartialCrossEntropyCondition.destructure()
PartialDestructure(c) == <<"PartialCrossEntropyCondition", <<c.xs, c.ps, c.weight>>>>

\* a mutant of PartialStructure: xs and ps are taken in the wrong order
PartialStructure_Swapped(params) ==
    PartialCrossEntropyCondition(params[2], params[1], params[3])

\* PartialCrossEntropyCondition.structure(params)
PartialStructure(params) ==
    PartialCrossEntropyCondition(params[1], params[2], params[3])

\* condition.destructure(), dispatched on the condition's class
Destructure(c) ==
    IF c.class = "CrossEntropyCondition"
    THEN CrossEntropyDestructure(c)
    ELSE PartialDestructure(c)

\* cond_class.structure(cond_param)
Structure(cond_class, cond_param) ==
    IF cond_class = "CrossEntropyCondition"
    THEN CrossEntropyStructure(cond_param)
    ELSE PartialStructure(cond_param)

---------------------------------------------------------------------------
(* static.py: the two multi-condition loss paths *)

\* the amplification factor of the loss kernels
LossScale == 100

RECURSIVE JittedTotal(_, _, _, _)
\* the loop of jitted_condition_loss over zip(cond_classes, cond_params)
JittedTotal(dist, cond_classes, cond_params, i) ==
    IF i > Min(Len(cond_classes), Len(cond_params)) THEN 0
    ELSE Loss(Structure(cond_classes[i], cond_params[i]), dist)
         + JittedTotal(dist, cond_classes, cond_params, i + 1)

\* static.jitted_condition_loss
jitted_condition_loss(dist_class, dist_params, cond_classes, cond_params) ==
    LET dist == LogisticFromParams(dist_params, FALSE)
    IN JittedTotal(dist, cond_classes, cond_params, 1) * LossScale

\* a mutant of single_condition_loss: the amplification is missing
single_condition_loss_Unscaled(dist_class, dist_params, cond_class, cond_param) ==
    Loss(Structure(cond_class, cond_param), LogisticFromParams(dist_params, TRUE))

\* static.single_condition_loss
single_condition_loss(dist_class, dist_params, cond_class, cond_param) ==
    LET dist == LogisticFromParams(dist_params, TRUE)
        condition == Structure(cond_class, cond_param)
    IN Loss(condition, dist) * LossScale

RECURSIVE ConditionLossTotal(_, _, _, _, _)
\* the loop of condition_loss over zip(cond_classes, cond_params)
ConditionLossTotal(dist_class, dist_params, cond_classes, cond_params, i) ==
    IF i > Min(Len(cond_classes), Len(cond_params)) THEN 0
    ELSE single_condition_loss(dist_class, dist_params, cond_classes[i], cond_params[i])
         + ConditionLossTotal(dist_class, dist_params, cond_classes, cond_params, i + 1)

\* static.condition_loss
condition_loss(dist_class, dist_params, cond_classes, cond_params) ==
    ConditionLossTotal(dist_class, dist_params, cond_classes, cond_params, 1)

---------------------------------------------------------------------------
(* SpecLoss: build a list of conditions, then destructure / structure one,
   take one condition's loss, or take the loss of the whole list on either
   path *)

\* the largest number of conditions in the list
MaxConds == 2

\* weights 0, 1/2 and 1
Weights == {0, 1, 2}

\* (xs, ps) of the partial conditions: one point with p = 1; two points with
\* p = 1/4 and 3/4
PartialArgs == {<<<<ONE \div 2>>, <<4>>>>, <<<<0, ONE>>, <<1, 3>>>>}

\* histograms of two bins: (1/2, 1/2) and (1/4, 3/4)
HistogramArgs == {<<-693, -693>>, <<-1386, -288>>}

Conditions ==
    {PartialCrossEntropyCondition(a[1], a[2], w) : a \in PartialArgs, w \in Weights}
    \cup {CrossEntropyCondition(HistogramDist(l, FALSE), w) : l \in HistogramArgs, w \in {1}}

\* flat distribution parameters (loc, s): loc 0 or 1/2, s 0.01 or 0.25
DistParams == {<<loc, s>> : loc \in {0, ONE \div 2}, s \in {ONE \div 100, ONE \div 4}}

NoOut ==
    [op |-> "none", idx |-> 0, cls |-> "none",
     cond |-> PartialCrossEntropyCondition(<<>>, <<>>, 0), value |-> 0]

InitIdleLoss == conds = <<>> /\ dparams = <<0, Eps>> /\ out = NoOut

CondClasses == [i \in 1..Len(conds) |-> Destructure(conds[i])[1]]

CondParams == [i \in 1..Len(conds) |-> Destructure(conds[i])[2]]

NewCondition ==
    \E c \in Conditions :
        /\ Len(conds) < MaxConds
        /\ conds' = Append(conds, c)
        /\ out' = [NoOut EXCEPT !.op = "new"]
        /\ UNCHANGED <<kin, kout, lg, lgOp, margs, mix, res, dparams>>

RoundTrip ==
    \E i \in 1..Len(conds) :
        /\ out' = [NoOut EXCEPT !.op = "roundtrip", !.idx = i,
                     !.cls = Destructure(conds[i])[1],
                     !.cond = Structure(Destructure(conds[i])[1],
                                        Destructure(conds[i])[2])]
        /\ UNCHANGED <<kin, kout, lg, lgOp, margs, mix, res, conds, dparams>>

ConditionLossOf ==
    \E i \in 1..Len(conds) :
        /\ out' = [NoOut EXCEPT !.op = "loss", !.idx = i,
                     !.value = Loss(conds[i], LogisticFromParams(dparams, FALSE))]
        /\ UNCHANGED <<kin, kout, lg, lgOp, margs, mix, res, conds, dparams>>

JittedConditionLoss ==
    /\ out' = [NoOut EXCEPT !.op = "jitted_condition_loss",
                 !.value = jitted_condition_loss("Logistic", dparams,
                                                 CondClasses, CondParams)]
    /\ UNCHANGED <<kin, kout, lg, lgOp, margs, mix, res, conds, dparams>>

ConditionLoss ==
    /\ out' = [NoOut EXCEPT !.op = "condition_loss",
                 !.value = condition_loss("Logistic", dparams,
                                          CondClasses, CondParams)]
    /\ UNCHANGED <<kin, kout, lg, lgOp, margs, mix, res, conds, dparams>>

---------------------------------------------------------------------------
(* static.py and logistic_mixture.py: the two copies of the mixture
   log-likelihood kernel.  Flat params hold rows (loc, s, prob), all three in
   units of ONE; scores are in 1/1000 nat. *)

\* the spread floor of the kernels, 0.01
KernelFloor == ONE \div 100

\* exp(-k) for k = 0 .. 7, in 1/1000
ExpTable == <<1000, 368, 135, 50, 18, 7, 2, 1>>

\* np.exp(d) for a score difference d <= 0, taken at whole nats; below the
\* table it is 0 to the last digit
ExpNat(d) ==
    LET k == (0 - d) \div LQ
    IN IF k < Len(ExpTable) THEN ExpTable[k + 1] ELSE 0

\* np.log of a sum of exponentials (1/1000) in 1/1000 nat
LogSumTable ==
    {<<1000, 0>>, <<1018, 18>>, <<1050, 49>>, <<1135, 127>>, <<1368, 313>>,
     <<1500, 405>>, <<2000, 693>>, <<2368, 862>>, <<3000, 1099>>, <<4000, 1386>>}

\* np.log(v), v >= 1, rounded down to the table
LogSum(v) ==
    LET below == {e \in LogSumTable : e[1] <= v}
    IN (CHOOSE e \in below : \A f \in below : f[1] <= e[1])[2]

RECURSIVE NpSum(_, _)
\* np.sum of a one-dimensional array
NpSum(a, i) == IF i > Len(a) THEN 0 ELSE a[i] + NpSum(a, i + 1)

\* scipy.special.logsumexp(a): a_max + log(sum(exp(a - a_max)))
logsumexp(a) ==
    LET a_max == SeqMax(a)
    IN a_max + LogSum(NpSum([i \in 1..Len(a) |-> ExpNat(a[i] - a_max)], 1))

\* params.reshape((-1, 3))
Reshape3(params) ==
    [i \in 1..(Len(params) \div 3) |->
        <<params[3 * i - 2], params[3 * i - 1], params[3 * i]>>]

\* a mutant of logistic_mixture_logpdf1: the log-weight is not added
logistic_mixture_logpdf1_NoWeight(params, datum) ==
    LET structured_params == Reshape3(params)
    IN logsumexp([i \in 1..Len(structured_params) |->
           logistic_logpdf(datum, structured_params[i][1],
                           Max(structured_params[i][2], KernelFloor))])

\* static.logistic_mixture_logpdf1
logistic_mixture_logpdf1(params, datum) ==
    LET structured_params == Reshape3(params)
        probs == [i \in 1..Len(structured_params) |-> structured_params[i][3]]
        logprobs == [i \in 1..Len(probs) |-> NpLog(probs[i])]
        component_scores ==
            [i \in 1..Len(structured_params) |->
                LET p == structured_params[i]
                    weight == logprobs[i]
                    loc == p[1]
                    scale == Max(p[2], KernelFloor)
                IN logistic_logpdf(datum, loc, scale) + weight]
    IN logsumexp(component_scores)

\* static.logistic_mixture_logpdf.  With data.size == 1 the whole array goes
\* through logistic_mixture_logpdf1 and logsumexp reduces over it; otherwise
\* the per-datum scores are summed.
logistic_mixture_logpdf(params, data) ==
    IF Len(data) = 1 THEN logistic_mixture_logpdf1(params, data[1])
    ELSE LET scores == [i \in 1..Len(data) |-> logistic_mixture_logpdf1(params, data[i])]
         IN NpSum(scores, 1)

\* Logistic.params_logpdf(x, loc, s) of the location-scale family: the closed
\* form  -|y| - 2 log(1 + exp(-|y|)) - log(s)  at y = (x - loc) / s
LogisticParamsLogpdf(x, loc, s) ==
    LET y == (x - loc) \div s
    IN StdLogpdf(y) - NpLog(s)

\* logistic_mixture.static_mixture_params_logpdf1 (LogisticMixture.params_logpdf1)
static_mixture_params_logpdf1(params, datum) ==
    LET structured_params == Reshape3(params)
        probs == [i \in 1..Len(structured_params) |-> structured_params[i][3]]
        logprobs == [i \in 1..Len(probs) |-> NpLog(probs[i])]
        component_scores ==
            [i \in 1..Len(structured_params) |->
                LET p == structured_params[i]
                    weight == logprobs[i]
                    loc == p[1]
                    scale == Max(p[2], KernelFloor)
                IN LogisticParamsLogpdf(datum, loc, scale) + weight]
    IN logsumexp(component_scores)

\* logistic_mixture.static_mixture_params_logpdf (LogisticMixture.params_logpdf)
static_mixture_params_logpdf(params, data) ==
    LET scores == [i \in 1..Len(data) |-> static_mixture_params_logpdf1(params, data[i])]
    IN NpSum(scores, 1)

---------------------------------------------------------------------------
(* SpecKernel: flat mixture parameters and a batch of data are drawn, then
   either copy of the kernel is called on them *)

\* the largest number of rows (components) of the flat params
MaxRows == 2

\* the largest batch of data points
MaxData == 2

\* rows (loc, s, prob): loc 0 or 1/2; s 0, 0.001 (both under the floor) or
\* 0.25; prob 1/4 or 1/2
KernelRows ==
    {<<loc, s, prob>> : loc \in {0, ONE \div 2}, s \in {0, ONE \div 1000, ONE \div 4},
                        prob \in {ONE \div 4, ONE \div 2}}

\* the rows laid out flat
Flatten(rows) == [j \in 1..(3 * Len(rows)) |-> rows[(j + 2) \div 3][((j - 1) % 3) + 1]]

KernelParams ==
    {Flatten(rows) : rows \in UNION {[1..n -> KernelRows] : n \in 1..MaxRows}}

\* normalized data points 0 and 1/2, in batches of 0 .. MaxData
KernelData == UNION {[1..n -> {0, ONE \div 2}] : n \in 0..MaxData}

NoKin == [params |-> <<>>, data |-> <<>>]

NoKout == [op |-> "none", value |-> 0]

InitIdleKernel == kin = NoKin /\ kout = NoKout

StaticLogpdf ==
    /\ kin # NoKin
    /\ kout' = [op |-> "static.logistic_mixture_logpdf",
                value |-> logistic_mixture_logpdf(kin.params, kin.data)]
    /\ UNCHANGED <<kin, lg, lgOp, margs, mix, res, conds, dparams, out>>

ParamsLogpdf ==
    /\ kin # NoKin
    /\ kout' = [op |-> "LogisticMixture.params_logpdf",
                value |-> static_mixture_params_logpdf(kin.params, kin.data)]
    /\ UNCHANGED <<kin, lg, lgOp, margs, mix, res, conds, dparams, out>>

---------------------------------------------------------------------------
(* Specifications *)

InitLogistic ==
    InitIdleLogistic /\ InitIdleMixture /\ InitIdleLoss /\ InitIdleKernel

NextLogistic == ConstructLogistic \/ NormalizeLogistic \/ DenormalizeLogistic

SpecLogistic == InitLogistic /\ [][NextLogistic]_vars

InitMixture ==
    /\ InitIdleLogistic
    /\ margs \in MixInputs
    /\ mix = NoMixture
    /\ res = NoRes
    /\ InitIdleLoss
    /\ InitIdleKernel

NextMixture == ConstructMixture \/ NormalizeMixture \/ DenormalizeMixture

SpecMixture == InitMixture /\ [][NextMixture]_vars

NextPpf == ConstructMixture \/ Ppf \/ Cdf

SpecPpf == InitMixture /\ [][NextPpf]_vars

InitLoss ==
    /\ InitIdleLogistic
    /\ InitIdleMixture
    /\ conds = <<>>
    /\ dparams \in DistParams
    /\ out = NoOut
    /\ InitIdleKernel

NextLoss ==
    NewCondition \/ RoundTrip \/ ConditionLossOf \/ JittedConditionLoss \/ ConditionLoss

SpecLoss == InitLoss /\ [][NextLoss]_vars

InitKernel ==
    /\ InitIdleLogistic
    /\ InitIdleMixture
    /\ InitIdleLoss
    /\ kin \in [params : KernelParams, data : KernelData]
    /\ kout = NoKout

NextKernel == StaticLogpdf \/ ParamsLogpdf

SpecKernel == InitKernel /\ [][NextKernel]_vars

---------------------------------------------------------------------------
(* Claims *)

RECURSIVE SumSeq(_, _)
SumSeq(s, i) == IF i > Len(s) THEN 0 ELSE s[i] + SumSeq(s, i + 1)

\* C1: Mixture.ppf(q) never raises: for any mixture and any q in (0,1) it
\* returns a finite number, also when neither the component bracket nor the
\* scale bracket holds a sign change of cdf(x) - q (then the midpoint of the
\* original bracket).
C1_PpfNeverRaises == res.op = "ppf" => res.raised = "none"

\* C2: every Mixture that exists has all of its components on its own
\* Scale: the constructor raises exactly when a component's scale differs
\* (and then no object exists), and normalize() and denormalize(scale)
\* return mixtures that satisfy the invariant again.
C2_ComponentsOnMixtureScale ==
    /\ \A i \in 1..Len(mix.components) : mix.components[i].scale = mix.scale
    /\ res.op = "construct" =>
          /\ (res.raised = "Exception") <=> res.mismatch
          /\ (res.raised = "none") <=> ~res.mismatch
          /\ res.raised # "none" => mix = NoMixture
    /\ res.op \in {"normalize", "denormalize"} =>
          /\ res.raised = "none"
          /\ Len(mix.components) = Len(res.recv.components)

\* C2 witness: a two-component mixture was denormalized onto another scale
C2_Witness ==
    /\ res.op = "denormalize"
    /\ Len(mix.components) = 2
    /\ mix.scale # res.recv.scale
    /\ mix.scale = Scale(0, 2)

\* C3: for a mixture with exactly one component, ppf(q) is exactly the
\* component's ppf(q), whatever probs is, and no root finding runs.
C3_SingleComponentPpf ==
    (res.op = "ppf" /\ Len(mix.components) = 1) =>
        /\ res.raised = "none"
        /\ res.tier = "component"
        /\ res.value = LogisticPpf(mix.components[1], res.q)

\* C3 witness: the quantile of a one-component mixture whose weight is not 1
C3_Witness ==
    /\ res.op = "ppf"
    /\ Len(mix.components) = 1
    /\ mix.probs[1] # PrQ
    /\ res.value # 0

C5_SpreadInvariant ==
    lg # NoLogistic =>
        /\ lg.s > 0
        /\ lg.true_set
        /\ lg.true_s = lg.s * ScaleWidth(lg.scale)

C7_OnlyScaleChanges ==
    lgOp.op \in {"normalize", "denormalize"} =>
        /\ lg.scale = lgOp.scale_arg
        /\ lg.loc = lgOp.recv.loc
        /\ lg.s = lgOp.recv.s

\* the reference of C8: 100 times the sum of the conditions' own losses
RECURSIVE SumLoss(_, _, _)
SumLoss(cs, dist, i) ==
    IF i > Len(cs) THEN 0 ELSE Loss(cs[i], dist) + SumLoss(cs, dist, i + 1)

\* C8: the two multi-condition loss paths agree: for any list of conditions
\* (also the empty one) jitted_condition_loss and condition_loss both return
\* 100 times the sum over the conditions of condition.loss(dist).
C8_LossPathsAgree ==
    out.op \in {"jitted_condition_loss", "condition_loss"} =>
        out.value = LossScale * SumLoss(conds, LogisticFromParams(dparams, FALSE), 1)

\* C8 witness: the per-condition path summed two conditions of different
\* classes to a nonzero loss
C8_Witness ==
    /\ out.op = "condition_loss"
    /\ Len(conds) = 2
    /\ conds[1].class # conds[2].class
    /\ conds[1].weight > 0
    /\ out.value # 0

\* C9: for every condition c, structure(destructure(c)[1]) is a condition
\* of the class destructure(c)[0] with the same weight and the same numeric
\* parameters, so its loss(d) equals c.loss(d).
C9_StructureRoundTrip ==
    out.op = "roundtrip" =>
        /\ out.cond.class = out.cls
        /\ out.cls = conds[out.idx].class
        /\ out.cond.weight = conds[out.idx].weight
        /\ out.cond.xs = conds[out.idx].xs
        /\ out.cond.ps = conds[out.idx].ps
        /\ out.cond.p_dist = conds[out.idx].p_dist
        /\ Loss(out.cond, LogisticFromParams(dparams, FALSE))
               = Loss(conds[out.idx], LogisticFromParams(dparams, FALSE))

\* C9 witness: a partial condition with two points went through the round trip
C9_Witness ==
    /\ out.op = "roundtrip"
    /\ out.cls = "PartialCrossEntropyCondition"
    /\ Len(conds[out.idx].xs) = 2
    /\ conds[out.idx].weight > 0

\* C10 as stated: every condition's loss is nonnegative for weight >= 0,
\* and it is 0 when the weight is 0.
C10_LossNonnegative ==
    (out.op = "loss" /\ conds[out.idx].weight >= 0) =>
        /\ out.value >= 0
        /\ conds[out.idx].weight = 0 => out.value = 0

\* whether the distribution's log-density is <= 0 at every point of xs
LogDensityNonpositive(c, dist) ==
    \A i \in 1..Len(c.xs) : LogisticLogpdf(dist, c.xs[i]) <= 0

\* C10 as amended: a condition's loss is its weight times the computed
\* cross-entropy; it is 0 when the weight is 0; for a partial condition
\* with weight >= 0 and ps >= 0 it is >= 0 when the distribution's
\* log-density is <= 0 at every xs, and it is <= 0 when the log-density is
\* >= 0 at every xs.
C10_LossIsWeightedCrossEntropy ==
    out.op = "loss" =>
        LET c == conds[out.idx]
            dist == LogisticFromParams(dparams, FALSE)
        IN /\ c.weight = 0 => out.value = 0
           /\ c.class = "PartialCrossEntropyCondition" =>
                 /\ out.value = c.weight * PartialCrossEntropy(c, dist)
                 /\ LogDensityNonpositive(c, dist) => out.value >= 0
                 /\ (\A i \in 1..Len(c.xs) : LogisticLogpdf(dist, c.xs[i]) >= 0)
                        => out.value <= 0
           /\ c.class = "CrossEntropyCondition" =>
                 out.value = c.weight * HistogramCrossEntropy(c.p_dist, dist)

\* C10 witness: a weighted partial condition scored a distribution whose
\* density is below 1 at its points, with a positive loss
C10_Witness ==
    /\ out.op = "loss"
    /\ conds[out.idx].class = "PartialCrossEntropyCondition"
    /\ conds[out.idx].weight > 0
    /\ LogDensityNonpositive(conds[out.idx], LogisticFromParams(dparams, FALSE))
    /\ out.value > 0

\* the reference score of one datum: logsumexp over the rows of
\* component_logpdf(d, loc, max(s, 0.01)) + log(prob)
RefLogpdf1(rows, d) ==
    logsumexp([i \in 1..Len(rows) |->
        LogisticParamsLogpdf(d, rows[i][1], Max(rows[i][2], KernelFloor))
        + NpLog(rows[i][3])])

RECURSIVE RefLogpdf(_, _, _)
\* the reference log-likelihood: the sum of the reference scores of the data
RefLogpdf(rows, data, i) ==
    IF i > Len(data) THEN 0
    ELSE RefLogpdf1(rows, data[i]) + RefLogpdf(rows, data, i + 1)

\* flat params with every spread at or under the floor replaced by the floor
AtFloor(params) ==
    [j \in 1..Len(params) |->
        IF j % 3 = 2 /\ params[j] <= KernelFloor THEN KernelFloor ELSE params[j]]

\* C11: whichever copy of the kernel was called, the value it returned is the
\* sum over the data points of the logsumexp over the rows of
\* component_logpdf(d, loc, max(s, 0.01)) + log(prob), also for a batch of
\* one; it is the value the kernel gives when every s <= 0.01 is 0.01; and
\* static.logistic_mixture_logpdf and LogisticMixture.params_logpdf give the
\* same value on the same arguments.
C11_KernelEqualsReference ==
    kout.op # "none" =>
        /\ kout.value = RefLogpdf(Reshape3(kin.params), kin.data, 1)
        /\ kout.value = logistic_mixture_logpdf(AtFloor(kin.params), kin.data)
        /\ kout.value = static_mixture_params_logpdf(AtFloor(kin.params), kin.data)
        /\ logistic_mixture_logpdf(kin.params, kin.data)
               = static_mixture_params_logpdf(kin.params, kin.data)

\* C11 is exercised: the static kernel scored a batch of one under two rows,
\* one with a spread under the floor and one above it, the rows scoring
\* differently
C11_Witness ==
    /\ kout.op = "static.logistic_mixture_logpdf"
    /\ Len(kin.data) = 1
    /\ Len(kin.params) = 6
    /\ kin.params[2] < KernelFloor
    /\ kin.params[5] > KernelFloor
    /\ kin.params[1] # kin.params[4]
    /\ kin.params[3] # kin.params[6]
    /\ kout.value # 0

\* C12: after ppf(q) on a mixture of two or more components whose probs are
\* nonnegative and sum to 1, cdf(cmin - |cmin|/100) <= q <= cdf(cmax +
\* |cmax|/100) for cmin, cmax the smallest and largest component ppf(q), so
\* the first bisect does not raise and ppf returns from it, and the value
\* returned lies between the two ends of that bracket.
C12_FirstBracketHoldsQuantile ==
    (/\ res.op = "ppf"
     /\ Len(mix.components) >= 2
     /\ \A i \in 1..Len(mix.probs) : mix.probs[i] >= 0
     /\ SumSeq(mix.probs, 1) = PrQ) =>
        LET a == BracketLow(mix, res.q)
            b == BracketHigh(mix, res.q)
        IN /\ PpfObjective(mix, res.q, a) <= 0
           /\ PpfObjective(mix, res.q, b) >= 0
           /\ Bisect(mix, res.q, a, b, "bracket").raised = "none"
           /\ res.raised = "none"
           /\ res.tier = "bracket"
           /\ a <= res.value
           /\ res.value <= b

\* C12 witness: the smallest component quantile is 0, so the lower end of
\* the bracket has no slack; the components' quantiles differ and the cdf is
\* strictly on either side of q at the two ends
C12_Witness ==
    /\ res.op = "ppf"
    /\ Len(mix.components) >= 2
    /\ SumSeq(mix.probs, 1) = PrQ
    /\ SeqMin(ComponentPpfs(mix, res.q)) = 0
    /\ BracketLow(mix, res.q) = 0
    /\ BracketHigh(mix, res.q) > 0
    /\ PpfObjective(mix, res.q, BracketLow(mix, res.q)) < 0
    /\ PpfObjective(mix, res.q, BracketHigh(mix, res.q)) > 0
    /\ res.tier = "bracket"

====
